---- MODULE Spec2Model ----
(***************************************************************************)
(* A model of extract_dump.py: the conversion of a fixed-width dump (one   *)
(* record per line, several record types interleaved, the first character  *)
(* of a line naming its type) into one CSV sink per record type plus an    *)
(* error sink.                                                             *)
(*                                                                         *)
(* Text is modelled by TLA+ strings, one character per position, so that   *)
(* slicing, stripping, splitting and the digit tests are computed as the   *)
(* Python code computes them.  Two control characters have no TLA+ escape  *)
(* and are written with a printable stand-in: NUL for \x00, STX for \x02.  *)
(* A Python value (str, int or None) is a record tagged with its type.     *)
(* Record constructors list their fields in the order TLC keeps them in.   *)
(***************************************************************************)
EXTENDS Integers, Sequences, FiniteSets, TLC

VARIABLES
    consumed,      \* the lines read from the input stream so far, in order
    sinks,         \* per record type: the rows written to its output writer
    errors,        \* the rows written to the error writer
    pc,            \* "running" | "done" | "aborted"
    raised,        \* the exception that ended the run ("" while none has)
    fobjOpen,      \* the decoded input stream (fobj) is open
    zfOpen,        \* the zip archive (zf) is open
    errorOpen,     \* the error file (error_fobj) is open
    writerOpen,    \* per record type: its output writer has not been closed
    arg,           \* the argument of the function under test (unit specs)
    ret,           \* what that function returned or raised
    called         \* whether the function under test has been applied

vars == <<consumed, sinks, errors, pc, raised, fobjOpen, zfOpen, errorOpen,
          writerOpen, arg, ret, called>>

(***************************************************************************)
(* Characters and Python's str methods                                     *)
(***************************************************************************)
NUL == "^"
STX == "~"
LF  == "\n"

Ch(s, i) == SubSeq(s, i, i)

Chars(s) == {Ch(s, i) : i \in 1..Len(s)}

Digits == {"0", "1", "2", "3", "4", "5", "6", "7", "8", "9"}

UpperLetters == "ABCDEFGHIJKLMNOPQRSTUVWXYZ"

LowerLetters == "abcdefghijklmnopqrstuvwxyz"

\* The characters str.strip() and str.split() treat as whitespace.
Whitespace == {" ", LF, "\t", "\r", "\f"}

Min(a, b) == IF a < b THEN a ELSE b

Max(a, b) == IF a > b THEN a ELSE b

\* s[a:b] for 0 <= a, 0 <= b.
Slice(s, a, b) == SubSeq(s, a + 1, Min(b, Len(s)))

\* s[-n:] for n > 0.
LastChars(s, n) == SubSeq(s, Max(1, Len(s) - n + 1), Len(s))

\* str.isdigit()
IsDigit(s) == Len(s) > 0 /\ \A i \in 1..Len(s) : Ch(s, i) \in Digits

LowerChar(c) ==
    IF \E i \in 1..Len(UpperLetters) : Ch(UpperLetters, i) = c
    THEN Ch(LowerLetters, CHOOSE i \in 1..Len(UpperLetters) : Ch(UpperLetters, i) = c)
    ELSE c

UpperChar(c) ==
    IF \E i \in 1..Len(LowerLetters) : Ch(LowerLetters, i) = c
    THEN Ch(UpperLetters, CHOOSE i \in 1..Len(LowerLetters) : Ch(LowerLetters, i) = c)
    ELSE c

RECURSIVE Lower(_)
Lower(s) == IF s = "" THEN "" ELSE LowerChar(Ch(s, 1)) \o Lower(SubSeq(s, 2, Len(s)))

RECURSIVE Upper(_)
Upper(s) == IF s = "" THEN "" ELSE UpperChar(Ch(s, 1)) \o Upper(SubSeq(s, 2, Len(s)))

\* str.replace(old, new) for a one-character old.
RECURSIVE Replace(_, _, _)
Replace(s, old, new) ==
    IF s = "" THEN ""
    ELSE (IF Ch(s, 1) = old THEN new ELSE Ch(s, 1)) \o Replace(SubSeq(s, 2, Len(s)), old, new)

SetMin(S) == CHOOSE i \in S : \A j \in S : i <= j

SetMax(S) == CHOOSE i \in S : \A j \in S : i >= j

\* The part of s from the first to the last of the positions in keep.
Span(s, keep) == IF keep = {} THEN "" ELSE SubSeq(s, SetMin(keep), SetMax(keep))

\* str.strip()
Strip(s) == Span(s, {i \in 1..Len(s) : Ch(s, i) \notin Whitespace})

\* str.split(): the maximal runs of non-whitespace characters, in order.
RECURSIVE Split(_)
SplitAt(t, ws) ==
    IF ws = {} THEN <<t>>
    ELSE <<SubSeq(t, 1, SetMin(ws) - 1)>> \o Split(SubSeq(t, SetMin(ws) + 1, Len(t)))

SplitStripped(t) ==
    IF t = "" THEN <<>> ELSE SplitAt(t, {i \in 1..Len(t) : Ch(t, i) \in Whitespace})

Split(s) == SplitStripped(Strip(s))

\* words[-1]
Last(words) == words[Len(words)]

\* " ".join(words)
RECURSIVE Join(_)
Join(words) ==
    IF words = <<>> THEN ""
    ELSE IF Len(words) = 1 THEN words[1]
    ELSE words[1] \o " " \o Join(Tail(words))

\* list.pop() of the last element
Pop(words) == SubSeq(words, 1, Len(words) - 1)

(***************************************************************************)
(* Python values and dicts                                                 *)
(***************************************************************************)
PyStr(s) == [s |-> s, n |-> 0, t |-> "str"]

PyInt(n) == [s |-> "", n |-> n, t |-> "int"]

PyNone == [s |-> "", n |-> 0, t |-> "None"]

EmptyDict == [k \in {} |-> PyNone]

\* d[k] = v
Put(d, k, v) == [x \in DOMAIN d \cup {k} |-> IF x = k THEN v ELSE d[x]]

\* del d[k]
Del(d, k) == [x \in DOMAIN d \ {k} |-> d[x]]

(***************************************************************************)
(* read_header: the layout of one record type                              *)
(***************************************************************************)
SlugChars == Chars(LowerLetters) \cup Digits \cup {"_"}

\* Maps every character outside SlugChars to the separator.
RECURSIVE SlugMap(_)
SlugMap(s) ==
    IF s = "" THEN ""
    ELSE (IF Ch(s, 1) \in SlugChars THEN Ch(s, 1) ELSE "_") \o SlugMap(SubSeq(s, 2, Len(s)))

\* Keeps one separator of every run of separators.
RECURSIVE SlugSqueeze(_)
SlugSqueeze(s) ==
    IF Len(s) < 2 THEN s
    ELSE IF Ch(s, 1) = "_" /\ Ch(s, 2) = "_" THEN SlugSqueeze(SubSeq(s, 2, Len(s)))
    ELSE Ch(s, 1) \o SlugSqueeze(SubSeq(s, 2, Len(s)))

\* text.strip("_")
SlugStrip(s) == Span(s, {i \in 1..Len(s) : Ch(s, i) # "_"})

\* rows.fields.slug on ASCII text: lower case, words joined by "_".
slug(text) == SlugStrip(SlugSqueeze(SlugMap(Lower(Strip(text)))))

\* table.order_by("start_column"): the rows in ascending start_column.
FirstRow(table) ==
    CHOOSE i \in 1..Len(table) :
        \A j \in 1..Len(table) :
            \/ table[i].start_column < table[j].start_column
            \/ table[i].start_column = table[j].start_column /\ i <= j

RECURSIVE OrderByStartColumn(_)
MoveToFront(table, k) ==
    <<table[k]>> \o OrderByStartColumn(SubSeq(table, 1, k - 1) \o SubSeq(table, k + 1, Len(table)))

OrderByStartColumn(table) ==
    IF table = <<>> THEN <<>> ELSE MoveToFront(table, FirstRow(table))

\* One descriptor of the header: the CSV row plus field_name, start_index, end_index.
HeaderField(r) ==
    [start_column |-> r.start_column,
     name        |-> r.name,
     size        |-> r.size,
     type        |-> r.type,
     field_name  |-> slug(r.name),
     start_index |-> r.start_column - 1,
     end_index   |-> (r.start_column - 1) + r.size]

HeaderOf(sorted) == [i \in 1..Len(sorted) |-> HeaderField(sorted[i])]

read_header(table) == HeaderOf(OrderByStartColumn(table))

(***************************************************************************)
(* parse_row                                                               *)
(***************************************************************************)
\* int(value) accepts an optional sign and digits, single underscores between them.
IntLiteralBody(s) ==
    /\ Len(s) > 0
    /\ \A i \in 1..Len(s) : Ch(s, i) \in Digits \cup {"_"}
    /\ Ch(s, 1) # "_" /\ Ch(s, Len(s)) # "_"
    /\ \A i \in 1..(Len(s) - 1) : ~(Ch(s, i) = "_" /\ Ch(s, i + 1) = "_")

IsIntLiteral(s) ==
    IF Len(s) > 0 /\ Ch(s, 1) \in {"+", "-"}
    THEN IntLiteralBody(SubSeq(s, 2, Len(s)))
    ELSE IntLiteralBody(s)

DigitValue(c) == CHOOSE d \in 0..9 : Ch("0123456789", d + 1) = c

RECURSIVE NatValue(_)
NatValue(s) ==
    IF s = "" THEN 0
    ELSE IF Ch(s, Len(s)) = "_" THEN NatValue(SubSeq(s, 1, Len(s) - 1))
    ELSE 10 * NatValue(SubSeq(s, 1, Len(s) - 1)) + DigitValue(Ch(s, Len(s)))

IntValue(s) ==
    IF Ch(s, 1) = "-" THEN 0 - NatValue(SubSeq(s, 2, Len(s)))
    ELSE IF Ch(s, 1) = "+" THEN NatValue(SubSeq(s, 2, Len(s)))
    ELSE NatValue(s)

StartsWith(s, prefix) == Len(s) >= Len(prefix) /\ SubSeq(s, 1, Len(prefix)) = prefix

ParsingError(line, error) == [raised |-> "ParsingError", line |-> line, error |-> error, row |-> EmptyDict]

Parsed(row) == [raised |-> "", line |-> "", error |-> "", row |-> row]

\* line.replace("\x00", " ").replace("\x02", " ")
CleanLine(line) == Replace(Replace(line, NUL, " "), STX, " ")

\* The date branch's length test: which lengths raise "Wrong date size".
WrongDateSize(value) == Len(value) > 8

\* The line the ParsingError carries, given the line parse_row received and the
\* line it slices.
ErrorLine(received, cleaned) == cleaned

Skip == [error |-> "", value |-> PyNone, op |-> "skip"]

Fail(error) == [error |-> error, value |-> PyNone, op |-> "raise"]

Set(value) == [error |-> "", value |-> value, op |-> "set"]

\* value = f"{value[:4]}-{value[4:6]}-{value[6:8]}"
FormatDate(value) == Slice(value, 0, 4) \o "-" \o Slice(value, 4, 6) \o "-" \o Slice(value, 6, 8)

ZeroDateToEmpty(date) == IF date = "0000-00-00" THEN "" ELSE date

\* One iteration of the loop over the header, given the stripped slice: what
\* the field does to the row.
FieldValueStep(field_name, type, value) ==
    IF field_name = "filler" THEN
        IF Strip(value) \notin {"", "9999999999999999"} THEN Fail("Wrong filler") ELSE Skip
    ELSE IF field_name \in {"tipo_de_registro", "tipo_do_registro"} THEN Skip
    ELSE IF field_name \in {"fim", "fim_registro", "fim_de_registro"} THEN
        IF Strip(value) # "F" THEN Fail("Wrong end") ELSE Skip
    ELSE IF field_name \in {"indicador_full_diario", "tipo_atualizacao", "tipo_de_atualizacao"} THEN Skip
    ELSE IF StartsWith(field_name, "data_") /\ value # "" THEN
        IF WrongDateSize(value) THEN Fail("Wrong date size")
        ELSE Set(PyStr(ZeroDateToEmpty(FormatDate(value))))
    ELSE IF type = "N" /\ "*" \notin Chars(value) THEN
        IF value = "" THEN Set(PyNone)
        ELSE IF IsIntLiteral(value) THEN Set(PyInt(IntValue(value)))
        ELSE Fail("Cannot convert '" \o value \o "' to int")
    ELSE Set(PyStr(value))

\* value = line[field["start_index"] : field["end_index"]].strip()
FieldStep(field, line) ==
    FieldValueStep(field.field_name, field.type,
                   Strip(Slice(line, field.start_index, field.end_index)))

RECURSIVE ParseFields(_, _, _, _, _)
ApplyStep(header, received, line, i, row, step) ==
    IF step.op = "raise" THEN ParsingError(ErrorLine(received, line), step.error)
    ELSE IF step.op = "skip" THEN ParseFields(header, received, line, i + 1, row)
    ELSE ParseFields(header, received, line, i + 1, Put(row, header[i].field_name, step.value))

ParseFields(header, received, line, i, row) ==
    IF i > Len(header) THEN Parsed(row)
    ELSE ApplyStep(header, received, line, i, row, FieldStep(header[i], line))

parse_row(header, line) == ParseFields(header, line, CleanLine(line), 1, EmptyDict)

(***************************************************************************)
(* The transform functions.  A call returns [raised, data]: the exception  *)
(* it raised ("" when it returned) and the list of rows it returned.       *)
(***************************************************************************)
Return(data) == [raised |-> "", data |-> data]

Raise(exception) == [raised |-> exception, data |-> <<>>]

fields_to_delete == {"codigo_pais", "correio_eletronico", "filler", "nome_pais"}

\* The list without its last entry, for comparison.
fields_to_clear_if_mei_missing == {"complemento", "ddd_fax", "ddd_telefone_1", "ddd_telefone_2",
                                   "descricao_tipo_logradouro", "logradouro"}

fields_to_clear_if_mei == {"complemento", "ddd_fax", "ddd_telefone_1", "ddd_telefone_2",
                           "descricao_tipo_logradouro", "logradouro", "numero"}

\* str.replace(old, "") for a one-character old.
Remove(s, old) == Replace(s, old, "")

Value(value) == [raised |-> "", value |-> value]

IndexError == [raised |-> "IndexError", value |-> ""]

\* if words[-1] == "-": words.pop(); return " ".join(words).strip()
DropDash(words) ==
    IF words = <<>> THEN IndexError
    ELSE Value(Strip(Join(IF Last(words) = "-" THEN Pop(words) ELSE words)))

\* if words[-1].upper() == "CPF": words.pop()
DropCpfWord(words) ==
    IF words = <<>> THEN IndexError
    ELSE DropDash(IF Upper(Last(words)) = "CPF" THEN Pop(words) ELSE words)

\* if words[-1].isdigit() and len(words[-1]) == 11: words.pop()
DropCpfNumber(words) ==
    IF words = <<>> THEN IndexError
    ELSE DropCpfWord(IF IsDigit(Last(words)) /\ Len(Last(words)) = 11 THEN Pop(words) ELSE words)

\* clear_company_name: [raised, value]; words[-1] of an empty list raises IndexError.
clear_company_name(name) ==
    IF IsDigit(name) THEN Value(name) ELSE DropCpfNumber(Split(name))

\* clear_email: None for a placeholder, the address itself otherwise.
NoEmail(clean) ==
    Cardinality(Chars(clean)) < 3 \/ clean \in {"nao tem", "n tem", "ntem", "nao possui", "nt"}

clear_email(email) ==
    IF NoEmail(Remove(Remove(Lower(email), "/"), "_")) THEN PyNone ELSE PyStr(email)

\* The fields transform_empresa reads; a layout that declares them as text
\* makes parse_row store each of them as a str.
EmpresaTextFields ==
    {"correio_eletronico", "opcao_pelo_simples", "nome_fantasia", "opcao_pelo_mei",
     "razao_social", "cnpj"}

\* A flag that defaults to "0" instead of raising, for comparison.
SimplesFlagLenient(value) == IF value \in {"5", "7"} THEN "1" ELSE "0"

\* opcao_pelo_simples -> "0" | "1" | "raise"
SimplesFlag(value) ==
    IF value \in {"", "0", "6", "8"} THEN "0"
    ELSE IF value \in {"5", "7"} THEN "1"
    ELSE "raise"

\* opcao_pelo_mei -> "0" | "1" | "raise"
MeiFlag(value) ==
    IF value \in {"N", ""} THEN "0"
    ELSE IF value = "S" THEN "1"
    ELSE "raise"

\* for field_name in fields_to_clear_if_mei: row[field_name] = ""
ClearFields(row, names) ==
    [x \in DOMAIN row \cup names |-> IF x \in names THEN PyStr("") ELSE row[x]]

\* for field_name in fields_to_delete: if field_name in row: del row[field_name]
DeleteFields(row, names) == [x \in DOMAIN row \ names |-> row[x]]

\* Clear all fields which can expose sensitive info; return [row]
EmpresaDelete(row) == Return(<<DeleteFields(row, fields_to_delete)>>)

\* Clear all fields which can expose personal info
EmpresaClear(row) == EmpresaDelete(ClearFields(row, fields_to_clear_if_mei))

EmpresaSetFantasia(row, cleared) ==
    IF cleared.raised # "" THEN Raise(cleared.raised)
    ELSE EmpresaClear(Put(row, "nome_fantasia", PyStr(cleared.value)))

\* if row["nome_fantasia"] and row["nome_fantasia"].split()[-1].isdigit()
EmpresaFantasiaWords(row, fantasia, words) ==
    IF fantasia = "" THEN EmpresaClear(row)
    ELSE IF words = <<>> THEN Raise("IndexError")
    ELSE IF IsDigit(Last(words)) THEN EmpresaSetFantasia(row, clear_company_name(fantasia))
    ELSE EmpresaClear(row)

EmpresaSetRazao(row, cleared) ==
    IF cleared.raised # "" THEN Raise(cleared.raised)
    ELSE EmpresaFantasiaWords(Put(row, "razao_social", PyStr(cleared.value)),
                              row["nome_fantasia"].s, Split(row["nome_fantasia"].s))

\* if row["razao_social"].split()[-1].isdigit()
EmpresaRazaoWords(row, razao, words) ==
    IF words = <<>> THEN Raise("IndexError")
    ELSE IF IsDigit(Last(words)) THEN EmpresaSetRazao(row, clear_company_name(razao))
    ELSE EmpresaSetRazao(row, Value(razao))

\* The opcao_pelo_mei chain, given the flag.
EmpresaMei(row, mei) ==
    IF mei = "raise" THEN Raise("ValueError")
    ELSE IF mei = "1"
    THEN EmpresaRazaoWords(Put(row, "opcao_pelo_mei", PyStr("1")),
                           row["razao_social"].s, Split(row["razao_social"].s))
    ELSE EmpresaDelete(Put(row, "opcao_pelo_mei", PyStr("0")))

\* if set(row["nome_fantasia"]) == set(["0"]): row["nome_fantasia"] = ""
EmpresaZeroFantasia(row) ==
    IF Chars(row["nome_fantasia"].s) = {"0"} THEN Put(row, "nome_fantasia", PyStr("")) ELSE row

\* The opcao_pelo_simples chain, given the flag.
EmpresaSimples(row, simples) ==
    IF simples = "raise" THEN Raise("ValueError")
    ELSE EmpresaMei(EmpresaZeroFantasia(Put(row, "opcao_pelo_simples", PyStr(simples))),
                    MeiFlag(row["opcao_pelo_mei"].s))

transform_empresa(row) ==
    IF ~(EmpresaTextFields \subseteq DOMAIN row) THEN Raise("KeyError")
    ELSE IF \E k \in EmpresaTextFields : row[k].t # "str" THEN Raise("TypeError")
    ELSE EmpresaSimples(Put(row, "correio_eletronico", clear_email(row["correio_eletronico"].s)),
                        SimplesFlag(row["opcao_pelo_simples"].s))

\* The fields transform_socio reads.
SocioFields ==
    {"campo_desconhecido", "nome_representante_legal", "cnpj_cpf_do_socio", "identificador_de_socio"}

\* assert row["campo_desconhecido"] == ""
AssertEmpty(value) == value = PyStr("")

\* if row["identificador_de_socio"] == 2: keep the last 11 characters
SocioPessoaFisica(row) ==
    IF row["identificador_de_socio"] = PyInt(2)
    THEN IF row["cnpj_cpf_do_socio"].t # "str" THEN Raise("TypeError")
         ELSE Return(<<Put(row, "cnpj_cpf_do_socio",
                           PyStr(LastChars(row["cnpj_cpf_do_socio"].s, 11)))>>)
    ELSE Return(<<row>>)

\* if row["cnpj_cpf_do_socio"] == "000***000000**"
SocioMaskedDocument(row) ==
    SocioPessoaFisica(IF row["cnpj_cpf_do_socio"] = PyStr("000***000000**")
                      THEN Put(row, "cnpj_cpf_do_socio", PyStr("")) ELSE row)

\* if row["nome_representante_legal"] == "CPF INVALIDO"
SocioRepresentante(row) ==
    SocioMaskedDocument(
        IF row["nome_representante_legal"] = PyStr("CPF INVALIDO")
        THEN [x \in DOMAIN row \cup {"cpf_representante_legal", "nome_representante_legal",
                                     "codigo_qualificacao_representante_legal"} |->
                 IF x \in {"cpf_representante_legal", "nome_representante_legal",
                           "codigo_qualificacao_representante_legal"}
                 THEN PyNone ELSE row[x]]
        ELSE row)

transform_socio(row) ==
    IF ~(SocioFields \subseteq DOMAIN row) THEN Raise("KeyError")
    ELSE IF ~AssertEmpty(row["campo_desconhecido"]) THEN Raise("AssertionError")
    ELSE SocioRepresentante(Del(row, "campo_desconhecido"))

\* A partition that drops a shorter last piece, for comparison.
ipartition_whole(iterable, partition_size) ==
    [k \in 1..(Len(iterable) \div partition_size) |->
        SubSeq(iterable, (k - 1) * partition_size + 1, k * partition_size)]

\* rows.plugins.utils.ipartition: consecutive pieces of partition_size
\* characters, the last one shorter when the length is no multiple of it.
RECURSIVE ipartition(_, _)
ipartition(iterable, partition_size) ==
    IF iterable = "" THEN <<>>
    ELSE <<Slice(iterable, 0, partition_size)>> \o
         ipartition(SubSeq(iterable, partition_size + 1, Len(iterable)), partition_size)

\* if set(digits) != set(["0"])
RECURSIVE KeepCodes(_)
KeepCodes(parts) ==
    IF parts = <<>> THEN <<>>
    ELSE (IF Chars(parts[1]) # {"0"} THEN <<parts[1]>> ELSE <<>>) \o KeepCodes(Tail(parts))

\* new_row = row.copy(); new_row["cnae"] = cnae, for every cnae
CnaeRows(row, cnaes) == [i \in 1..Len(cnaes) |-> Put(row, "cnae", PyStr(cnaes[i]))]

transform_cnae_secundaria(row) ==
    IF "cnae" \notin DOMAIN row THEN Raise("KeyError")
    ELSE IF row["cnae"].t # "str" THEN Raise("TypeError")
    ELSE Return(CnaeRows(Del(row, "cnae"), KeepCodes(ipartition(row["cnae"].s, 7))))

\* lambda row: [row]
transform_identity(row) == Return(<<row>>)

(***************************************************************************)
(* main: the record types, their layout files and transform functions.    *)
(* The layout files are input data; the tables below are small layouts of  *)
(* the documented shape (name, size, start_column, type), two of them with *)
(* their rows out of order.                                                *)
(***************************************************************************)
header_csv ==
    <<[start_column |-> 1, name |-> "TIPO DE REGISTRO", size |-> 1, type |-> "A"],
      [start_column |-> 2, name |-> "FILLER", size |-> 2, type |-> "A"],
      [start_column |-> 4, name |-> "NOME DO ARQUIVO", size |-> 3, type |-> "A"],
      [start_column |-> 7, name |-> "DATA DE GRAVACAO", size |-> 9, type |-> "N"],
      [start_column |-> 16, name |-> "NUMERO DA REMESSA", size |-> 2, type |-> "N"],
      [start_column |-> 18, name |-> "FIM DE REGISTRO", size |-> 1, type |-> "A"]>>

empresa_csv ==
    <<[start_column |-> 1, name |-> "TIPO DE REGISTRO", size |-> 1, type |-> "N"],
      [start_column |-> 2, name |-> "INDICADOR FULL DIARIO", size |-> 1, type |-> "A"],
      [start_column |-> 3, name |-> "TIPO ATUALIZACAO", size |-> 1, type |-> "A"],
      [start_column |-> 4, name |-> "CNPJ", size |-> 2, type |-> "A"],
      [start_column |-> 6, name |-> "RAZAO SOCIAL", size |-> 24, type |-> "A"],
      [start_column |-> 30, name |-> "NOME FANTASIA", size |-> 15, type |-> "A"],
      [start_column |-> 45, name |-> "DATA SITUACAO CADASTRAL", size |-> 8, type |-> "N"],
      [start_column |-> 53, name |-> "DESCRICAO TIPO LOGRADOURO", size |-> 3, type |-> "A"],
      [start_column |-> 56, name |-> "LOGRADOURO", size |-> 3, type |-> "A"],
      [start_column |-> 59, name |-> "NUMERO", size |-> 2, type |-> "A"],
      [start_column |-> 61, name |-> "COMPLEMENTO", size |-> 2, type |-> "A"],
      [start_column |-> 63, name |-> "DDD TELEFONE 1", size |-> 2, type |-> "A"],
      [start_column |-> 65, name |-> "DDD TELEFONE 2", size |-> 2, type |-> "A"],
      [start_column |-> 67, name |-> "DDD FAX", size |-> 2, type |-> "A"],
      [start_column |-> 69, name |-> "CORREIO ELETRONICO", size |-> 7, type |-> "A"],
      [start_column |-> 76, name |-> "CODIGO PAIS", size |-> 2, type |-> "A"],
      [start_column |-> 78, name |-> "NOME PAIS", size |-> 2, type |-> "A"],
      [start_column |-> 80, name |-> "OPCAO PELO SIMPLES", size |-> 1, type |-> "A"],
      [start_column |-> 81, name |-> "OPCAO PELO MEI", size |-> 1, type |-> "A"],
      [start_column |-> 82, name |-> "FILLER", size |-> 1, type |-> "A"],
      [start_column |-> 83, name |-> "FIM DE REGISTRO", size |-> 1, type |-> "A"]>>

socio_csv ==
    <<[start_column |-> 1, name |-> "TIPO DE REGISTRO", size |-> 1, type |-> "N"],
      [start_column |-> 2, name |-> "INDICADOR FULL DIARIO", size |-> 1, type |-> "A"],
      [start_column |-> 3, name |-> "TIPO ATUALIZACAO", size |-> 1, type |-> "A"],
      [start_column |-> 4, name |-> "CNPJ", size |-> 2, type |-> "A"],
      [start_column |-> 6, name |-> "IDENTIFICADOR DE SOCIO", size |-> 1, type |-> "N"],
      [start_column |-> 7, name |-> "NOME SOCIO", size |-> 3, type |-> "A"],
      [start_column |-> 10, name |-> "CNPJ CPF DO SOCIO", size |-> 14, type |-> "A"],
      [start_column |-> 24, name |-> "DATA ENTRADA SOCIEDADE", size |-> 8, type |-> "N"],
      [start_column |-> 32, name |-> "CPF REPRESENTANTE LEGAL", size |-> 11, type |-> "A"],
      [start_column |-> 43, name |-> "NOME REPRESENTANTE LEGAL", size |-> 12, type |-> "A"],
      [start_column |-> 55, name |-> "CODIGO QUALIFICACAO REPRESENTANTE LEGAL", size |-> 2, type |-> "N"],
      [start_column |-> 57, name |-> "CAMPO DESCONHECIDO", size |-> 2, type |-> "A"],
      [start_column |-> 59, name |-> "FIM DE REGISTRO", size |-> 1, type |-> "A"]>>

cnae_secundaria_csv ==
    <<[start_column |-> 29, name |-> "FIM", size |-> 1, type |-> "A"],
      [start_column |-> 28, name |-> "FILLER", size |-> 1, type |-> "A"],
      [start_column |-> 6, name |-> "CNAE", size |-> 22, type |-> "A"],
      [start_column |-> 4, name |-> "CNPJ", size |-> 2, type |-> "A"],
      [start_column |-> 3, name |-> "TIPO ATUALIZACAO", size |-> 1, type |-> "A"],
      [start_column |-> 2, name |-> "INDICADOR FULL DIARIO", size |-> 1, type |-> "A"],
      [start_column |-> 1, name |-> "TIPO DE REGISTRO", size |-> 1, type |-> "N"]>>

trailler_csv ==
    <<[start_column |-> 4, name |-> "FILLER", size |-> 16, type |-> "A"],
      [start_column |-> 1, name |-> "TIPO DE REGISTRO", size |-> 1, type |-> "N"],
      [start_column |-> 20, name |-> "FIM", size |-> 1, type |-> "A"],
      [start_column |-> 2, name |-> "TOTAL DE REGISTROS", size |-> 2, type |-> "N"]>>

HeaderLine ==
    "0  QSA20190101 01F\n"

HeaderLongDate ==
    "0  QSA20190101101F\n"

HeaderShortDate ==
    "0  QSA2019     01F\n"

TraillerLine ==
    "9039999999999999999F\n"

TraillerBadFiller ==
    "90399~X            F\n"

EmpresaLine ==
    "1FA11ACME LTDA               0000           20100203RUAXV 15AP111213a@b.comBRBR5N F\n"

EmpresaMeiLine ==
    "1FA22FULANO - CPF 12345678901LOJA           00000000AV SOL7 B 212223N/TEM      0S F\n"

EmpresaBadSimples ==
    "1FA33ACME LTDA                              20100203RUAXV 15                   9N F\n"

EmpresaBadMei ==
    "1FA44ACME LTDA                              20100203RUAXV 15                   6X F\n"

EmpresaBadEnd ==
    "1FA55ACME^LTDA                              20100203RUAXV 15                   5N X\n"

SocioLine ==
    "2FA112ANA000***123456**20110405***000000**CPF INVALIDO05  F\n"

SocioBadCampo ==
    "2FA111XYZ000***000000**20110405                         ZZF\n"

SocioBadNumber ==
    "2FA11AANA000***123456**20110405                           F\n"

CnaeLine ==
    "6FA111234567000000090123450 F\n"

CnaeAllZero ==
    "6FA110000000000000000000000 F\n"

CnaeOneCode ==
    "6FA114751201                F\n"

UnknownTypeLine ==
    "3F   F\n"

BlankLine ==
    "\n"

row_types == {"0", "1", "2", "6", "9"}

header_filename(row_type) ==
    CASE row_type = "0" -> header_csv
      [] row_type = "1" -> empresa_csv
      [] row_type = "2" -> socio_csv
      [] row_type = "6" -> cnae_secundaria_csv
      [] row_type = "9" -> trailler_csv

header_definitions == [row_type \in row_types |-> read_header(header_filename(row_type))]

transform_functions(row_type, row) ==
    CASE row_type = "0" -> transform_identity(row)
      [] row_type = "1" -> transform_empresa(row)
      [] row_type = "2" -> transform_socio(row)
      [] row_type = "6" -> transform_cnae_secundaria(row)
      [] row_type = "9" -> transform_identity(row)

(***************************************************************************)
(* extract_files: one iteration of the loop over the lines of the input    *)
(***************************************************************************)
MaxLines == 3

\* The lines the input stream may hold.
InputLines ==
    {HeaderLine, HeaderLongDate, HeaderShortDate, TraillerLine, TraillerBadFiller,
     EmpresaLine, EmpresaMeiLine, EmpresaBadSimples, EmpresaBadMei, EmpresaBadEnd,
     SocioLine, SocioBadCampo, SocioBadNumber, CnaeLine, CnaeAllZero, CnaeOneCode,
     UnknownTypeLine, BlankLine}

\* The try block: header_definitions[row_type] raises KeyError for a type
\* that was not provisioned, parse_row may raise ParsingError.
TryParse(line) ==
    IF Ch(line, 1) \notin DOMAIN header_definitions
    THEN [raised |-> "KeyError", line |-> "", error |-> "", row |-> EmptyDict]
    ELSE parse_row(header_definitions[Ch(line, 1)], line)

\* A bare except clause, for comparison with the one the code has.
CaughtAny(exception) == TRUE

\* except ParsingError
Caught(exception) == exception = "ParsingError"

\* error_writer.writerow({"error": exception.error, "line": exception.line})
ErrorRow(exception) == [line |-> exception.line, error |-> exception.error]

\* Writers that keep only the first row, or put the new rows first, for
\* comparison with the loop the code has.
WriteRowsFirstOnly(written, data) == written \o SubSeq(data, 1, Min(1, Len(data)))

WriteRowsReversed(written, data) == data \o written

\* for row in data: output_writers[row_type].writerow(row)
WriteRows(written, data) == written \o data

\* What the loop body does with the outcome of the try block and, when the
\* line decoded, of the transform function.
Rejected(exception) ==
    [raised |-> "", data |-> <<>>, kind |-> "rejected", error_row |-> ErrorRow(exception)]

Fatal(exception) ==
    [raised |-> exception, data |-> <<>>, kind |-> "fatal", error_row |-> [line |-> "", error |-> ""]]

Written(data) ==
    [raised |-> "", data |-> data, kind |-> "written", error_row |-> [line |-> "", error |-> ""]]

AfterTransform(transformed) ==
    IF transformed.raised # "" THEN Fatal(transformed.raised) ELSE Written(transformed.data)

AfterTry(row_type, parsed) ==
    IF parsed.raised # ""
    THEN IF Caught(parsed.raised) THEN Rejected(parsed) ELSE Fatal(parsed.raised)
    ELSE AfterTransform(transform_functions(row_type, parsed.row))

LoopBody(line) == AfterTry(Ch(line, 1), TryParse(line))

Init ==
    /\ consumed = <<>>
    /\ sinks = [row_type \in row_types |-> <<>>]
    /\ errors = <<>>
    /\ pc = "running"
    /\ raised = ""
    /\ fobjOpen = TRUE
    /\ zfOpen = TRUE
    /\ errorOpen = TRUE
    /\ writerOpen = [row_type \in row_types |-> FALSE]
    /\ arg = EmptyDict
    /\ ret = Return(<<>>)
    /\ called = FALSE

\* The line does not decode: it goes to the error writer and the loop continues.
LineRejected(line, outcome) ==
    /\ pc = "running"
    /\ Len(consumed) < MaxLines
    /\ outcome.kind = "rejected"
    /\ consumed' = Append(consumed, line)
    /\ errors' = Append(errors, outcome.error_row)
    /\ UNCHANGED <<sinks, pc, raised, fobjOpen, zfOpen, errorOpen, writerOpen, arg, ret, called>>

\* The lookup of the record type or the transform function raises: no except
\* clause catches it, and the exception leaves extract_files.
LineFatal(line, outcome) ==
    /\ pc = "running"
    /\ Len(consumed) < MaxLines
    /\ outcome.kind = "fatal"
    /\ consumed' = Append(consumed, line)
    /\ pc' = "aborted"
    /\ raised' = outcome.raised
    /\ UNCHANGED <<sinks, errors, fobjOpen, zfOpen, errorOpen, writerOpen, arg, ret, called>>

\* The line decodes and transforms: its rows go to the writer of its type,
\* which opens its file on the first row it is given.
LineWritten(line, outcome) ==
    /\ pc = "running"
    /\ Len(consumed) < MaxLines
    /\ outcome.kind = "written"
    /\ sinks' = [sinks EXCEPT ![Ch(line, 1)] = WriteRows(@, outcome.data)]
    /\ writerOpen' = [writerOpen EXCEPT ![Ch(line, 1)] = @ \/ outcome.data # <<>>]
    /\ consumed' = Append(consumed, line)
    /\ UNCHANGED <<errors, pc, raised, fobjOpen, zfOpen, errorOpen, arg, ret, called>>

\* The input is exhausted: error_fobj.close(); fobj.close(); zf.close()
EndOfStream ==
    /\ pc = "running"
    /\ pc' = "done"
    /\ errorOpen' = FALSE
    /\ fobjOpen' = FALSE
    /\ zfOpen' = FALSE
    /\ UNCHANGED <<consumed, sinks, errors, raised, writerOpen, arg, ret, called>>

Next ==
    \/ \E line \in InputLines : LineRejected(line, LoopBody(line))
    \/ \E line \in InputLines : LineFatal(line, LoopBody(line))
    \/ \E line \in InputLines : LineWritten(line, LoopBody(line))
    \/ EndOfStream

Spec == Init /\ [][Next]_vars

(***************************************************************************)
(* transform_empresa on its own: the rows a layout of text fields can      *)
(* decode to, one call per behaviour                                       *)
(***************************************************************************)
\* The non-empty parts, separated by one space.
Phrase(a, b, c, d) == Join(SelectSeq(<<a, b, c, d>>, LAMBDA w : w # ""))

CompanyNames ==
    {Phrase(stem, dash, label, number) :
        stem \in {"", "FALANO DE TAL", "ACME 123"},
        dash \in {"", "-"},
        label \in {"", "CPF", "cpf"},
        number \in {"", "12345678901", "123456"}}

TradeNames == {"", "000", "LOJA", "CPF 12345678901", "LOJA 12345678901"}

SimplesCodes == {"", "0", "5", "6", "7", "8", "9"}

MeiCodes == {"", "N", "S", "X"}

EmpresaRow(razao, fantasia, simples, mei, contact, email) ==
    [x \in {"cnpj", "razao_social", "nome_fantasia", "data_situacao_cadastral",
            "codigo_pais", "nome_pais", "correio_eletronico", "opcao_pelo_simples",
            "opcao_pelo_mei", "complemento", "ddd_fax", "ddd_telefone_1", "ddd_telefone_2",
            "descricao_tipo_logradouro", "logradouro", "numero"} |->
        CASE x = "cnpj" -> PyStr("11")
          [] x = "razao_social" -> PyStr(razao)
          [] x = "nome_fantasia" -> PyStr(fantasia)
          [] x = "data_situacao_cadastral" -> PyStr("2010-02-03")
          [] x = "codigo_pais" -> PyStr("BR")
          [] x = "nome_pais" -> PyStr("BRASIL")
          [] x = "correio_eletronico" -> PyStr(email)
          [] x = "opcao_pelo_simples" -> PyStr(simples)
          [] x = "opcao_pelo_mei" -> PyStr(mei)
          [] OTHER -> PyStr(contact)]

EmpresaRows ==
    {EmpresaRow(razao, fantasia, simples, mei, contact, email) :
        razao \in CompanyNames, fantasia \in TradeNames, simples \in SimplesCodes,
        mei \in MeiCodes, contact \in {"", "RUA 1"}, email \in {"a@b.com", "N/TEM"}}

InitEmpresa ==
    /\ consumed = <<>>
    /\ sinks = [row_type \in row_types |-> <<>>]
    /\ errors = <<>>
    /\ pc = "running"
    /\ raised = ""
    /\ fobjOpen = TRUE
    /\ zfOpen = TRUE
    /\ errorOpen = TRUE
    /\ writerOpen = [row_type \in row_types |-> FALSE]
    /\ arg \in EmpresaRows
    /\ ret = Return(<<>>)
    /\ called = FALSE

CallTransformEmpresa ==
    /\ called = FALSE
    /\ called' = TRUE
    /\ ret' = transform_empresa(arg)
    /\ UNCHANGED <<consumed, sinks, errors, pc, raised, fobjOpen, zfOpen, errorOpen,
                   writerOpen, arg>>

NextEmpresa == CallTransformEmpresa

SpecEmpresa == InitEmpresa /\ [][NextEmpresa]_vars

(***************************************************************************)
(* transform_cnae_secundaria on its own                                    *)
(***************************************************************************)
MaxChunks == 3

ChunkPool == {"0000000", "1234567", "9012345", "0123450"}

\* What may follow the last whole chunk.
ChunkTails == {"", "0", "12"}

RECURSIVE Concat(_)
Concat(parts) == IF parts = <<>> THEN "" ELSE parts[1] \o Concat(Tail(parts))

CnaeValues ==
    {Concat(parts) \o tail :
        parts \in UNION {[1..n -> ChunkPool] : n \in 0..MaxChunks}, tail \in ChunkTails}

CnaeRow(cnae) == [x \in {"cnpj", "cnae"} |-> IF x = "cnpj" THEN PyStr("11") ELSE PyStr(cnae)]

InitCnae ==
    /\ consumed = <<>>
    /\ sinks = [row_type \in row_types |-> <<>>]
    /\ errors = <<>>
    /\ pc = "running"
    /\ raised = ""
    /\ fobjOpen = TRUE
    /\ zfOpen = TRUE
    /\ errorOpen = TRUE
    /\ writerOpen = [row_type \in row_types |-> FALSE]
    /\ arg \in {CnaeRow(cnae) : cnae \in CnaeValues}
    /\ ret = Return(<<>>)
    /\ called = FALSE

CallTransformCnae ==
    /\ called = FALSE
    /\ called' = TRUE
    /\ ret' = transform_cnae_secundaria(arg)
    /\ UNCHANGED <<consumed, sinks, errors, pc, raised, fobjOpen, zfOpen, errorOpen,
                   writerOpen, arg>>

NextCnae == CallTransformCnae

SpecCnae == InitCnae /\ [][NextCnae]_vars

(***************************************************************************)
(* Properties of the run (extract_files), checked under Spec               *)
(***************************************************************************)
\* What the try block makes of each line the stream may hold.
ParsedLines == [line \in InputLines |-> TryParse(line)]

TransformParsed(row_type, parsed) ==
    IF parsed.raised = "" THEN transform_functions(row_type, parsed.row) ELSE Raise(parsed.raised)

\* What the transform function makes of each line that decodes.
TransformedLines == [line \in InputLines |-> TransformParsed(Ch(line, 1), ParsedLines[line])]

\* The line does not decode: parse_row raises ParsingError.
Malformed(line) == ParsedLines[line].raised = "ParsingError"

\* The line decodes and transforms without error.
Valid(line) == TransformedLines[line].raised = ""

TotalWritten ==
    Len(sinks["0"]) + Len(sinks["1"]) + Len(sinks["2"]) + Len(sinks["6"]) + Len(sinks["9"])

\* The stream read so far holds exactly one malformed line, at any position,
\* and otherwise valid lines only.
OneMalformedAmongValid ==
    /\ Cardinality({i \in 1..Len(consumed) : Malformed(consumed[i])}) = 1
    /\ \A i \in 1..Len(consumed) : Malformed(consumed[i]) \/ Valid(consumed[i])

\* The 7-character pieces of a code list that are not all zeros, counted
\* from the text itself.
CodeCount(cnae) ==
    Cardinality({k \in 1..((Len(cnae) + 6) \div 7) :
                    Chars(SubSeq(cnae, 7 * (k - 1) + 1, Min(7 * k, Len(cnae)))) # {"0"}})

\* The records a valid line yields: one, or one per code for a line of
\* secondary activity codes.
RecordCount(line) ==
    IF Ch(line, 1) = "6" THEN CodeCount(ParsedLines[line].row["cnae"].s) ELSE 1

RECURSIVE SumRecordCounts(_)
SumRecordCounts(lines) ==
    IF lines = <<>> THEN 0
    ELSE (IF Valid(lines[1]) THEN RecordCount(lines[1]) ELSE 0) + SumRecordCounts(Tail(lines))

BusinessViolationRow(row_type, row) ==
    \/ /\ row_type = "1"
       /\ \/ row["opcao_pelo_simples"].s \notin {"", "0", "6", "8", "5", "7"}
          \/ row["opcao_pelo_mei"].s \notin {"N", "", "S"}
    \/ /\ row_type = "2"
       /\ row["campo_desconhecido"] # PyStr("")

BusinessViolationParsed(row_type, parsed) ==
    parsed.raised = "" /\ BusinessViolationRow(row_type, parsed.row)

BusinessViolation(line) == BusinessViolationParsed(Ch(line, 1), ParsedLines[line])

\* C2: a step that reads a line whose decoded record breaks a business rule ends
\* the run with the exception uncaught and writes nothing to any output sink or
\* to the error sink; once the run is ended no line is read and nothing is written.
C2_BusinessViolationAborts ==
    [][/\ (consumed' # consumed /\ BusinessViolation(Last(consumed'))) =>
            /\ pc' = "aborted"
            /\ raised' \in {"ValueError", "AssertionError"}
            /\ sinks' = sinks
            /\ errors' = errors
       /\ pc = "aborted" =>
            /\ pc' = "aborted"
            /\ consumed' = consumed
            /\ sinks' = sinks
            /\ errors' = errors]_vars

C2_Witness ==
    /\ pc = "aborted"
    /\ raised = "ValueError"
    /\ Len(consumed) = 3
    /\ consumed[1] = EmpresaLine
    /\ consumed[2] = TraillerBadFiller
    /\ consumed[3] = EmpresaBadSimples
    /\ Len(sinks["1"]) = 1
    /\ Len(errors) = 1

\* C3: in every terminal state of the run (input exhausted, or ended by an
\* exception) the input stream, the archive, the error sink and every output
\* sink are closed.
C3_ResourcesReleased ==
    pc \in {"done", "aborted"} =>
        /\ ~fobjOpen
        /\ ~zfOpen
        /\ ~errorOpen
        /\ \A row_type \in row_types : ~writerOpen[row_type]

\* The rows the lines of one record type yield, line after line.
RECURSIVE ExpectedSink(_, _)
ExpectedSink(row_type, lines) ==
    IF lines = <<>> THEN <<>>
    ELSE (IF Ch(lines[1], 1) = row_type /\ Valid(lines[1])
          THEN TransformedLines[lines[1]].data
          ELSE <<>>) \o ExpectedSink(row_type, Tail(lines))

\* One entry per line that does not decode, line after line.
RECURSIVE ExpectedErrors(_)
ExpectedErrors(lines) ==
    IF lines = <<>> THEN <<>>
    ELSE (IF Malformed(lines[1])
          THEN <<[line |-> ParsedLines[lines[1]].line, error |-> ParsedLines[lines[1]].error]>>
          ELSE <<>>) \o ExpectedErrors(Tail(lines))

\* C4: at every point of the run each output sink holds the concatenation, in
\* input order, of the transform results of the decoded lines of its type read
\* so far, and the error sink one entry per failed line read so far, in input
\* order.
C4_OutputOrdering ==
    /\ \A row_type \in row_types : sinks[row_type] = ExpectedSink(row_type, consumed)
    /\ errors = ExpectedErrors(consumed)

C4_Witness ==
    /\ consumed = <<CnaeLine, SocioBadNumber, CnaeOneCode>>
    /\ Len(sinks["6"]) = 3
    /\ sinks["6"][1]["cnae"] = PyStr("1234567")
    /\ sinks["6"][2]["cnae"] = PyStr("9012345")
    /\ sinks["6"][3]["cnae"] = PyStr("4751201")
    /\ Len(errors) = 1

\* C8: a step that reads a line whose first character is no provisioned record
\* type ends the run with KeyError uncaught and writes nothing to the error sink
\* or to any output sink; once the run is ended no line is read.
C8_UnknownTypeFatal ==
    [][/\ (consumed' # consumed /\ Ch(Last(consumed'), 1) \notin row_types) =>
            /\ pc' = "aborted"
            /\ raised' = "KeyError"
            /\ errors' = errors
            /\ sinks' = sinks
       /\ (pc = "aborted" /\ raised = "KeyError") =>
            /\ pc' = "aborted"
            /\ consumed' = consumed
            /\ errors' = errors
            /\ sinks' = sinks]_vars

C8_Witness ==
    /\ pc = "aborted"
    /\ raised = "KeyError"
    /\ Len(consumed) = 2
    /\ consumed[1] = EmpresaBadEnd
    /\ consumed[2] = BlankLine
    /\ Len(errors) = 1
    /\ TotalWritten = 0

\* The stripped slices of the date fields of a line.
DateValues(header, line) ==
    {Strip(Slice(line, header[i].start_index, header[i].end_index)) :
        i \in {j \in 1..Len(header) : StartsWith(header[j].field_name, "data_")}}

HasWrongLengthDate(line) ==
    /\ Ch(line, 1) \in row_types
    /\ \E value \in DateValues(header_definitions[Ch(line, 1)], CleanLine(line)) :
           value # "" /\ Len(value) # 8

DateKeys(row) == {k \in DOMAIN row : StartsWith(k, "data_")}

WrongLengthDateLines == {line \in InputLines : HasWrongLengthDate(line)}

\* C9: every line read that has a non-empty date value of a length other than 8
\* is refused by parse_row, and every date value in an output record is empty or
\* a 10-character YYYY-MM-DD.
C9_DateLength ==
    /\ \A i \in 1..Len(consumed) : consumed[i] \in WrongLengthDateLines => Malformed(consumed[i])
    /\ \A row_type \in row_types : \A i \in 1..Len(sinks[row_type]) :
           \A k \in DateKeys(sinks[row_type][i]) :
               Len(sinks[row_type][i][k].s) \in {0, 10}

\* C10: the error sink holds, for the i-th line that failed to decode, an entry
\* of exactly the reason and the line, the line being the raw line as read.
C10_ErrorCarriesOriginalLine ==
    /\ Len(errors) = Len(SelectSeq(consumed, Malformed))
    /\ \A i \in 1..Len(errors) :
           /\ DOMAIN errors[i] = {"error", "line"}
           /\ errors[i].line = SelectSeq(consumed, Malformed)[i]

(***************************************************************************)
(* Properties of transform_empresa, checked under SpecEmpresa              *)
(***************************************************************************)
\* C5: every record transform_empresa returns for a row whose opcao_pelo_mei
\* was "S" has the flag "1" and the seven address and contact fields empty, and
\* no record it returns has codigo_pais, correio_eletronico, filler or nome_pais.
C5_Redaction ==
    (called /\ ret.raised = "") =>
        \A i \in 1..Len(ret.data) :
            /\ arg["opcao_pelo_mei"] = PyStr("S") =>
                   /\ ret.data[i]["opcao_pelo_mei"] = PyStr("1")
                   /\ \A f \in {"complemento", "ddd_fax", "ddd_telefone_1", "ddd_telefone_2",
                                "descricao_tipo_logradouro", "logradouro", "numero"} :
                          ret.data[i][f] = PyStr("")
            /\ DOMAIN ret.data[i] \cap {"codigo_pais", "correio_eletronico", "filler", "nome_pais"} = {}

C5_Witness ==
    /\ called
    /\ ret.raised = ""
    /\ Len(ret.data) = 1
    /\ arg["opcao_pelo_mei"] = PyStr("S")
    /\ arg["logradouro"] = PyStr("RUA 1")
    /\ arg["numero"] = PyStr("RUA 1")
    /\ "codigo_pais" \in DOMAIN arg
    /\ ret.data[1]["razao_social"] = PyStr("FALANO DE TAL")

\* C7: for every row whose opcao_pelo_simples and opcao_pelo_mei are among the
\* known codes, transform_empresa returns, without raising, exactly one record.
C7_ExactlyOneRecord ==
    (/\ called
     /\ arg["opcao_pelo_simples"].s \in {"", "0", "6", "8", "5", "7"}
     /\ arg["opcao_pelo_mei"].s \in {"N", "", "S"}) =>
        /\ ret.raised = ""
        /\ Len(ret.data) = 1

(***************************************************************************)
(* Properties of transform_cnae_secundaria, checked under SpecCnae         *)
(***************************************************************************)
NotAllZero(code) == Chars(code) # {"0"}

\* The pieces of at most 7 characters of a code list, in order.
Pieces(cnae) ==
    [k \in 1..((Len(cnae) + 6) \div 7) |->
        SubSeq(cnae, 7 * (k - 1) + 1, Min(7 * k, Len(cnae)))]

Codes(data) == [i \in 1..Len(data) |-> data[i]["cnae"].s]

\* The general part of C6: one record per piece that is not all zeros, in order,
\* each the input record with cnae set to that piece; none when all are zeros.
ExpandsPieces(row, data, kept) ==
    /\ data = [i \in 1..Len(kept) |-> [row EXCEPT !["cnae"] = PyStr(kept[i])]]
    /\ (\A k \in 1..Len(Pieces(row["cnae"].s)) : ~NotAllZero(Pieces(row["cnae"].s)[k])) => data = <<>>

\* C6 as stated: the example value yields the codes "1234567" and "0123450".
C6_ExampleAsStated ==
    (called /\ ret.raised = "") =>
        /\ ExpandsPieces(arg, ret.data, SelectSeq(Pieces(arg["cnae"].s), NotAllZero))
        /\ arg["cnae"].s = "1234567000000090123450" => Codes(ret.data) = <<"1234567", "0123450">>

\* C6 as amended: the example value, which is 22 characters long (three
\* 7-character pieces and a last piece "0"), yields the codes "1234567" and
\* "9012345".
C6_Expansion ==
    (called /\ ret.raised = "") =>
        /\ ExpandsPieces(arg, ret.data, SelectSeq(Pieces(arg["cnae"].s), NotAllZero))
        /\ arg["cnae"].s = "1234567000000090123450" => Codes(ret.data) = <<"1234567", "9012345">>

C6_Witness ==
    /\ called
    /\ ret.raised = ""
    /\ arg["cnae"].s = "1234567000000090123450"
    /\ Len(ret.data) = 2
    /\ ret.data[2]["cnpj"] = arg["cnpj"]

====
